---- MODULE Spec2Model ----
(***************************************************************************)
(* chuckbot: the connection session of pkg/twitchbot (Bot.Start and the    *)
(* goroutines it spawns), as a state machine.                              *)
(*                                                                         *)
(* Tasks: the reader (the goroutine running Bot.Start), one drain          *)
(* goroutine per call of createMessageChannel, and the goroutines spawned  *)
(* by listenToChat with `go` (pong, replyWithChuckFact, whisper).          *)
(***************************************************************************)
EXTENDS Bags, FiniteSets, Integers, Naturals, Sequences, TLC

(***************************************************************************)
(* Bounds of the model.                                                    *)
(***************************************************************************)
\* Spec: events from outside the reader that a behaviour holds: failed dials,
\* reconnects (dials after the first) and replies started for received lines
MaxEvents == 2
\* Spec: goroutines spawned by the reader that have not finished yet
MaxTasks == 1

\* SpecBurst, a burst of lines on one connection: !chucknorris commands
\* dispatched, WHISPERs answered, unfinished goroutines
BurstFacts == 1
BurstWhispers == 9
BurstTasks == 1

\* SpecDrain, a full channel and its drain goroutine: WHISPER lines read
DrainWhispers == 10

\* SpecLines, the lines read on one connection: goroutines started
LineEvents == 1

\* SpecBackoff, long runs of failed dials: connections, failed dials per cycle
BackoffConns == 2
BackoffFails == 36

\* the limits a specification puts on its behaviours
Limits(events, conns, fails, facts, whispers, tasks, factLens, log) ==
    [events |-> events, conns |-> conns, fails |-> fails, facts |-> facts,
     whispers |-> whispers, tasks |-> tasks, factLens |-> factLens, log |-> log]

\* lengths of the facts FetchChuckFact can return: the longest whose reply
\* to a user of Users fits a line of 512 bytes, and the next
FactLens == {483, 484}

\* the fact lengths of a burst: the replies that fit a line
BurstFactLens == {483}

MainLimits ==
    Limits(MaxEvents, MaxEvents + 1, MaxEvents, MaxEvents, MaxEvents, MaxTasks, FactLens,
           FALSE)

BurstLimits ==
    Limits(BurstFacts + BurstWhispers, 1, 0, BurstFacts, BurstWhispers, BurstTasks,
           BurstFactLens, FALSE)

\* SpecDrain: whispers only, one goroutine at a time
DrainLimits ==
    Limits(DrainWhispers, 1, 0, 0, DrainWhispers, 1, {}, FALSE)

\* SpecLines follows the log of the lines read on one connection
LineLimits ==
    Limits(LineEvents, 1, 0, LineEvents, LineEvents, LineEvents, BurstFactLens, TRUE)

BackoffLimits ==
    Limits(BackoffConns * (BackoffFails + 1), BackoffConns, BackoffFails, 0, 0, 0, {},
           FALSE)

\* the largest number of connections any specification dials
AllConns == IF MaxEvents + 1 > BackoffConns THEN MaxEvents + 1 ELSE BackoffConns

(***************************************************************************)
(* Program constants.                                                      *)
(***************************************************************************)
\* const maxMessageQueueLength = 10
maxMessageQueueLength == 10

\* var chatRateLimit = 30 * time.Second / 20: 1.5 s, the unit of the clock
chatRateLimit == 1

\* the line-length ceiling of writeToTwitch
MaxLineBytes == 512

(***************************************************************************)
(* time.Duration: a signed 64-bit count of nanoseconds, held as four       *)
(* 16-bit limbs, least significant first (two's complement).               *)
(***************************************************************************)
LimbBase == 65536

ZeroDuration == <<0, 0, 0, 0>>

\* time.Second = 1000000000 ns = 0x3B9ACA00
Second == <<51712, 15258, 0, 0>>

\* d * 2 in int64 arithmetic (wraps modulo 2^64)
Double64(d) ==
    LET c1 == (2 * d[1]) \div LimbBase
        c2 == (2 * d[2] + c1) \div LimbBase
        c3 == (2 * d[3] + c2) \div LimbBase
    IN  << (2 * d[1]) % LimbBase,
           (2 * d[2] + c1) % LimbBase,
           (2 * d[3] + c2) % LimbBase,
           (2 * d[4] + c3) % LimbBase >>

\* the sign bit of an int64
IsNegative64(d) == d[4] >= LimbBase \div 2

(***************************************************************************)
(* Configuration (the fields of Bot set by main and the secrets file).     *)
(***************************************************************************)
ConfigFields == {"BotName", "Server", "Port", "ChannelName", "SecretsPath"}

\* a configuration says which required fields are non-empty
Configs == [ConfigFields -> BOOLEAN]

\* what reading and decoding the secrets file can give
TokenSources == {"ok", "unreadable", "invalid", "empty"}

Users == {"bob"}

\* len(ChannelName) for the channel configured in main ("mikkeever")
ChannelNameLen == 9

\* len of the greeting passed to chat() by listenToChat
GreetingLen == 67

\* len of the default WhisperAutoResponse set by fillDefaults
WhisperAutoResponseLen == 236

\* len of the user name matched by messageRegex
UserNameLen == [u \in Users |-> 3]

(***************************************************************************)
(* Protocol lines.  A raw line is held by its parts: the prefix (none, the *)
(* server, or user!user@user.tmi.twitch.tv), the verb, the target (with or *)
(* without '#') and the text after " :" as a sequence of words; a word     *)
(* carries whether it is written with a leading '!'.                       *)
(***************************************************************************)
Word(w) == [bang |-> FALSE, w |-> w]

Bang(w) == [bang |-> TRUE, w |-> w]

MkLine(from, user, verb, hash, target, body) ==
    [from |-> from, user |-> user, verb |-> verb,
     hash |-> hash, target |-> target, body |-> body]

\* nothing has been read
NoLine == MkLine("", "", "", FALSE, "", <<>>)

\* ":tmi.twitch.tv NOTICE * :Login authentication failed"
authenticationErrorMessage ==
    MkLine("server", "", "NOTICE", FALSE, "*", <<Word("Login authentication failed")>>)

\* "PING :tmi.twitch.tv"
pingMessage ==
    MkLine("", "", "PING", FALSE, "", <<Word("tmi.twitch.tv")>>)

messageRateNotice ==
    <<Word("Your message was not sent because you are sending messages too quickly.")>>

whisperDeniedNotice ==
    <<Word("Your settings prevent you from sending this whisper.")>>

ServerNotice(body) == MkLine("server", "", "NOTICE", TRUE, "mikkeever", body)

UserLine(user, verb, hash, target, body) == MkLine("user", user, verb, hash, target, body)

\* the lines the server is taken to send
Lines ==
    { authenticationErrorMessage,
      pingMessage,
      ServerNotice(messageRateNotice),
      ServerNotice(whisperDeniedNotice),
      ServerNotice(<<Word("This room is now in slow mode.")>>),
      MkLine("server", "", "NOTICE", FALSE, "*", <<Word("Improperly formatted auth")>>),
      MkLine("server", "", "001", FALSE, "chuckbot", <<Word("Welcome, GLHF!")>>),
      MkLine("", "", "PING", FALSE, "", <<Word("other.host")>>) }
    \cup { UserLine(u, "PRIVMSG", TRUE, "mikkeever", b) : u \in Users,
             b \in { <<Bang("chucknorris")>>,
                     <<Word("hello"), Bang("chucknorris"), Word("world")>>,
                     <<Bang("other"), Bang("chucknorris")>>,
                     <<Bang("Chucknorris")>>,
                     <<Word("hello")>>,
                     <<>> } }
    \cup { UserLine(u, "WHISPER", FALSE, "chuckbot", b) : u \in Users,
             b \in { <<Word("hi")>>, <<Bang("chucknorris")>> } }
    \cup { UserLine(u, "JOIN", TRUE, "mikkeever", <<>>) : u \in Users }

\* noticeRegex: ^:tmi\.twitch\.tv NOTICE #\w+ :(.+)
noticeRegex(line) ==
    IF line.from = "server" /\ line.verb = "NOTICE" /\ line.hash
       /\ line.target # "" /\ line.body # <<>>
    THEN <<line.body>> ELSE <<>>

\* messageRegex: ^:(\w+)!\w+@\w+\.tmi\.twitch\.tv ((PRIVMSG|WHISPER) #?\w+ :(.*))$
\* gives <<username, messageType, message>> in a one-element sequence, or <<>>
messageRegex(line) ==
    IF line.from = "user" /\ line.user # "" /\ line.verb \in {"PRIVMSG", "WHISPER"}
       /\ line.target # ""
    THEN << <<line.user, line.verb, line.body>> >> ELSE <<>>

\* commandRegex matching without regard to case
commandRegexFold(message) ==
    LET at == {i \in DOMAIN message : message[i].bang /\ message[i].w # ""}
        first == CHOOSE i \in at : \A j \in at : i <= j
    IN  IF at = {} THEN <<>>
        ELSE IF message[first].w = "Chucknorris" THEN <<"chucknorris">>
        ELSE <<message[first].w>>

\* commandRegex: !(\w+), the leftmost match in the message
RECURSIVE commandRegex(_)
commandRegex(message) ==
    IF message = <<>> THEN <<>>
    ELSE IF Head(message).bang /\ Head(message).w # "" THEN <<Head(message).w>>
    ELSE commandRegex(Tail(message))

(***************************************************************************)
(* State.                                                                  *)
(***************************************************************************)
VARIABLES
    pc,                \* where the reader (Bot.Start) is; "queueMessage" when
                       \* it is parked in queueMessage on a full channel
    config,            \* which required fields of Bot are set
    tokenSource,       \* what the secrets file gives
    oAuthToken,        \* TRUE once getOAuthToken has stored the token
    exitReason,        \* why Start ended ("" while running)
    crashed,           \* a goroutine panicked: the process is gone
    reconnectWaitTime, \* bot.reconnectWaitTime
    sleeps,            \* the durations connect() slept in this cycle, in order
    connection,        \* bot.connection: 0 is nil, c >= 1 the c-th dialled conn
    connStatus,        \* of each dialled conn: "unused", "open", "broken", "closed"
    handshake,         \* the handshake lines written in this cycle, in order
    listenErr,         \* listenToChat is returning an error (else nil)
    messageChannel,    \* bot.messageChannel: 0 is nil, c >= 1 the c-th channel
    buf,               \* the buffer of each channel
    sendq,             \* the senders parked on each channel, with their message
    sleepLeft,         \* ticks each drain goroutine still sleeps
    tasks,             \* the goroutines spawned by listenToChat, a bag
    WhispersDisabled,  \* bot.WhispersDisabled
    produced,          \* replies started for received lines so far, by kind
    dialFails,         \* failed dials so far
    authSeen,          \* ReadLine has returned authenticationErrorMessage
    nextSeq,           \* the next enqueue number
    sent,              \* the enqueue numbers of the PRIVMSG lines written, in order
    sinceWrite,        \* ticks since the last PRIVMSG write (saturating)
    lastGap,           \* ticks between the last two PRIVMSG writes (saturating)
    lastWrite,         \* the last call of writeToTwitch: who, what, and how it went
    lastLine           \* line: what printpretty.Quiet(line) logged last, where
                       \* a specification follows the log

vars == << pc, config, tokenSource, oAuthToken, exitReason, crashed,
           reconnectWaitTime, sleeps, connection, connStatus, handshake,
           listenErr, messageChannel, buf, sendq, sleepLeft, tasks,
           WhispersDisabled, produced, dialFails, authSeen, nextSeq, sent,
           sinceWrite, lastGap, lastWrite, lastLine >>

readerVars == << pc, exitReason, reconnectWaitTime, sleeps, handshake,
                listenErr, dialFails, authSeen >>

startVars == << config, tokenSource, oAuthToken >>

queueVars == << messageChannel, buf, sendq, nextSeq >>

wireVars == << sent, sinceWrite, lastGap >>

Conns == 1..AllConns

\* the process runs: Start has not returned, log.Fatal was not called, no panic
Alive == exitReason = "" /\ ~crashed

\* no call of writeToTwitch yet
NoWrite == [who |-> "", command |-> "", len |-> 0, result |-> "", on |-> ""]

Init ==
    /\ pc = "verifyConfiguration"
    /\ config \in Configs
    /\ tokenSource \in TokenSources
    \* without a SecretsPath there is no file to read
    /\ ~config["SecretsPath"] => tokenSource = "unreadable"
    /\ oAuthToken = FALSE
    /\ exitReason = ""
    /\ crashed = FALSE
    /\ reconnectWaitTime = ZeroDuration
    /\ sleeps = <<>>
    /\ connection = 0
    /\ connStatus = [c \in Conns |-> "unused"]
    /\ handshake = <<>>
    /\ listenErr = FALSE
    /\ messageChannel = 0
    /\ buf = [c \in Conns |-> <<>>]
    /\ sendq = [c \in Conns |-> <<>>]
    /\ sleepLeft = [c \in Conns |-> 0]
    /\ tasks = EmptyBag
    /\ WhispersDisabled = FALSE
    /\ produced = [fact |-> 0, whisper |-> 0]
    /\ dialFails = 0
    /\ authSeen = FALSE
    /\ nextSeq = 1
    /\ sent = <<>>
    /\ sinceWrite = chatRateLimit
    /\ lastGap = chatRateLimit
    /\ lastWrite = NoWrite
    /\ lastLine = NoLine

(***************************************************************************)
(* Connection Manager.                                                     *)
(***************************************************************************)
\* len(fmt.Sprintf("%s %s\r\n", command, message))
FullMessageLen(commandLen, messageLen) == commandLen + 1 + messageLen + 2

\* writeToTwitch(command, message) without the check of len(fullMessage)
writeToTwitchNoLimit(commandLen, messageLen) ==
    IF connection = 0 THEN "panic"
    ELSE IF connStatus[connection] = "open" THEN "ok"
    ELSE "failed"

\* writeToTwitch(command, message): what the call does, from the lengths of
\* its arguments and the state of bot.connection:
\*   "dropped" the line exceeds 512 bytes, nothing is written
\*   "panic"   bot.connection holds no connection (nil): Write dereferences nil
\*   "ok"      the line is written
\*   "failed"  Write returns an error, which is logged
writeToTwitch(commandLen, messageLen) ==
    IF FullMessageLen(commandLen, messageLen) > MaxLineBytes THEN "dropped"
    ELSE IF connection = 0 THEN "panic"
    ELSE IF connStatus[connection] = "open" THEN "ok"
    ELSE "failed"

\* the state of the connection bot.connection holds
ConnectionState == IF connection = 0 THEN "nil" ELSE connStatus[connection]

\* a call of writeToTwitch(command, message) by goroutine who: the length of
\* the formatted line, what the call does, and the state bot.connection is in
Write(who, command, commandLen, messageLen) ==
    [who |-> who, command |-> command,
     len |-> FullMessageLen(commandLen, messageLen),
     result |-> writeToTwitch(commandLen, messageLen),
     on |-> ConnectionState]

\* backoffConnectionRate() without its baseline case: zero stays zero
backoffConnectionRateNoBaseline(wait) == Double64(wait)

\* backoffConnectionRate()
backoffConnectionRate(wait) ==
    IF wait = ZeroDuration THEN Second ELSE Double64(wait)

(***************************************************************************)
(* Outbound Limiter.                                                       *)
(***************************************************************************)
\* the string chat(message) hands to queueMessage: "#<channel> :<message>\r\n"
ChatMessage(kind, user, messageLen) ==
    [kind |-> kind, user |-> user, to |-> "channel",
     len |-> 1 + ChannelNameLen + 2 + messageLen + 2]

\* the string whisper(username, message) hands to queueMessage:
\* "#<username> :/w <username> <message>\r\n"
WhisperMessage(user, messageLen) ==
    [kind |-> "whisper", user |-> user, to |-> "user",
     len |-> 1 + UserNameLen[user] + 5 + UserNameLen[user] + 1 + messageLen + 2]

Item(msg, seq) ==
    [seq |-> seq, kind |-> msg.kind, user |-> msg.user, to |-> msg.to, len |-> msg.len]

\* a send on channel ch finds no room in the buffer and parks the sender
SendBlocks(ch) == Len(buf[ch]) >= maxMessageQueueLength

\* queueMessage as a send that gives up on a full channel
queueMessageDropWhenFull(who, ch, msg) ==
    IF SendBlocks(ch)
    THEN UNCHANGED << buf, sendq, nextSeq >>
    ELSE /\ buf' = [buf EXCEPT ![ch] = Append(@, Item(msg, nextSeq))]
         /\ nextSeq' = nextSeq + 1
         /\ UNCHANGED sendq

\* queueMessage(msg) by goroutine who ("reader" or "task"), bot.messageChannel
\* being ch: bot.messageChannel <- msg
queueMessage(who, ch, msg) ==
    IF SendBlocks(ch)
    THEN /\ sendq' = [sendq EXCEPT ![ch] = Append(@, [who |-> who, msg |-> msg])]
         /\ UNCHANGED << buf, nextSeq >>
    ELSE /\ buf' = [buf EXCEPT ![ch] = Append(@, Item(msg, nextSeq))]
         /\ nextSeq' = nextSeq + 1
         /\ UNCHANGED sendq

(***************************************************************************)
(* Session Loop: Bot.Start.                                                *)
(***************************************************************************)
\* verifyConfiguration() without the test of ChannelName
verifyConfigurationNoChannel(cfg) == \A f \in ConfigFields \ {"ChannelName"} : cfg[f]

\* verifyConfiguration(): an error when a required field is empty
verifyConfiguration(cfg) == \A f \in ConfigFields : cfg[f]

\* Start: err := bot.verifyConfiguration(); log.Fatal on error; fillDefaults
VerifyConfiguration ==
    /\ Alive /\ pc = "verifyConfiguration"
    /\ IF verifyConfiguration(config)
       THEN pc' = "getOAuthToken" /\ UNCHANGED exitReason
       ELSE pc' = "Terminated" /\ exitReason' = "config"
    /\ UNCHANGED << lastLine, lastWrite, startVars, crashed, reconnectWaitTime, sleeps, dialFails, authSeen, connection,
                    connStatus, handshake, listenErr, queueVars, sleepLeft,
                    tasks, WhispersDisabled, produced, wireVars >>

\* Start: err = bot.getOAuthToken(); return on error
GetOAuthToken ==
    /\ Alive /\ pc = "getOAuthToken"
    /\ IF tokenSource = "ok"
       THEN pc' = "loop" /\ oAuthToken' = TRUE /\ UNCHANGED exitReason
       ELSE pc' = "Terminated" /\ exitReason' = "token" /\ UNCHANGED oAuthToken
    /\ UNCHANGED << lastLine, lastWrite, config, tokenSource, crashed, reconnectWaitTime, sleeps, dialFails, authSeen,
                    connection, connStatus, handshake, listenErr, queueVars,
                    sleepLeft, tasks, WhispersDisabled, produced, wireVars >>

\* the top of the for loop without the reset of bot.reconnectWaitTime
StartCycleNoReset ==
    /\ Alive /\ pc = "loop"
    /\ sleeps' = <<>>
    /\ handshake' = <<>>
    /\ pc' = "connect"
    /\ UNCHANGED << lastLine, lastWrite, startVars, exitReason, crashed, reconnectWaitTime, dialFails,
                    authSeen, connection, connStatus, listenErr, queueVars,
                    sleepLeft, tasks, WhispersDisabled, produced, wireVars >>

\* Start, top of the for loop: bot.reconnectWaitTime = 0
StartCycle ==
    /\ Alive /\ pc = "loop"
    /\ reconnectWaitTime' = ZeroDuration
    /\ sleeps' = <<>>
    /\ handshake' = <<>>
    /\ pc' = "connect"
    /\ UNCHANGED << lastLine, lastWrite, startVars, exitReason, crashed, dialFails, authSeen, connection, connStatus,
                    listenErr, queueVars, sleepLeft, tasks, WhispersDisabled,
                    produced, wireVars >>

\* the number of connections dialled so far
Dialled == Cardinality({c \in Conns : connStatus[c] # "unused"})

\* the events of the behaviour so far (see MaxEvents)
Spent ==
    dialFails + (IF Dialled > 0 THEN Dialled - 1 ELSE 0)
    + produced.fact + produced.whisper

\* connect() giving up after a failed dial: it returns with the nil connection
DialFailGiveUp(L) ==
    /\ Alive /\ pc = "connect"
    /\ Len(sleeps) < L.fails /\ Spent < L.events
    /\ dialFails' = dialFails + 1
    /\ connection' = 0
    /\ sleeps' = Append(sleeps, reconnectWaitTime)
    /\ reconnectWaitTime' = backoffConnectionRate(reconnectWaitTime)
    /\ pc' = "authenticate"
    /\ UNCHANGED << lastLine, lastWrite, startVars, authSeen, exitReason, crashed, connStatus,
                    handshake, listenErr, queueVars, sleepLeft, tasks,
                    WhispersDisabled, produced, wireVars >>

\* connect(): tls.Dial fails; bot.connection holds the nil *tls.Conn it
\* returned; sleep reconnectWaitTime, backoffConnectionRate(), connect() again
DialFail(L) ==
    /\ Alive /\ pc = "connect"
    /\ Len(sleeps) < L.fails /\ Spent < L.events
    /\ dialFails' = dialFails + 1
    /\ connection' = 0
    /\ sleeps' = Append(sleeps, reconnectWaitTime)
    /\ reconnectWaitTime' = backoffConnectionRate(reconnectWaitTime)
    /\ UNCHANGED << lastLine, lastWrite, startVars, pc, authSeen, exitReason, crashed, connStatus, handshake,
                    listenErr, queueVars, sleepLeft, tasks, WhispersDisabled,
                    produced, wireVars >>

\* connect(): tls.Dial succeeds; connect() returns
DialOK(L) ==
    /\ Alive /\ pc = "connect"
    /\ Dialled < L.conns /\ (Dialled = 0 \/ Spent < L.events)
    /\ connection' = Dialled + 1
    /\ connStatus' = [connStatus EXCEPT ![Dialled + 1] = "open"]
    /\ pc' = "authenticate"
    /\ UNCHANGED << lastLine, lastWrite, startVars, exitReason, crashed, reconnectWaitTime, sleeps, dialFails, authSeen,
                    handshake, listenErr, queueVars, sleepLeft, tasks,
                    WhispersDisabled, produced, wireVars >>

\* the remote end or the network drops the current connection
ConnBreak ==
    /\ Alive
    /\ connection # 0 /\ connStatus[connection] = "open"
    /\ connStatus' = [connStatus EXCEPT ![connection] = "broken"]
    /\ UNCHANGED << lastLine, lastWrite, startVars, readerVars, crashed, connection, queueVars,
                    sleepLeft, tasks, WhispersDisabled, produced, wireVars >>

\* the reader's handshake write: what it adds to the lines written, and
\* whether it panics
HandshakeWrite(command, commandLen, messageLen) ==
    LET result == writeToTwitch(commandLen, messageLen)
    IN  /\ handshake' = handshake \o (IF result = "ok" THEN <<command>> ELSE <<>>)
        /\ crashed' = (result = "panic")
        /\ lastWrite' = Write("reader", command, commandLen, messageLen)

\* len of the OAuth token, in the format "oauth:xxxxxxxxxxxxxxxx"
OAuthTokenLen == 22

\* len(BotName) for the bot configured in main ("carlosray__norris")
BotNameLen == 17

\* authenticate(), first write, giving the cycle up when the write fails
AuthenticatePassChecked ==
    /\ Alive /\ pc = "authenticate"
    /\ HandshakeWrite("PASS", 4, OAuthTokenLen)
    /\ pc' = IF writeToTwitch(4, OAuthTokenLen) = "ok" THEN "authenticateNick" ELSE "loop"
    /\ UNCHANGED << lastLine, startVars, exitReason, reconnectWaitTime, sleeps, dialFails, authSeen,
                    connection, connStatus, listenErr, queueVars, sleepLeft,
                    tasks, WhispersDisabled, produced, wireVars >>

\* authenticate(), first write: PASS <token>
AuthenticatePass ==
    /\ Alive /\ pc = "authenticate"
    /\ HandshakeWrite("PASS", 4, OAuthTokenLen)
    /\ pc' = "authenticateNick"
    /\ UNCHANGED << lastLine, startVars, exitReason, reconnectWaitTime, sleeps, dialFails, authSeen,
                    connection, connStatus, listenErr, queueVars, sleepLeft,
                    tasks, WhispersDisabled, produced, wireVars >>

\* authenticate(), second write: NICK <name>
AuthenticateNick ==
    /\ Alive /\ pc = "authenticateNick"
    /\ HandshakeWrite("NICK", 4, BotNameLen)
    /\ pc' = "enableTwitchSpecificCommands"
    /\ UNCHANGED << lastLine, startVars, exitReason, reconnectWaitTime, sleeps, dialFails, authSeen,
                    connection, connStatus, listenErr, queueVars, sleepLeft,
                    tasks, WhispersDisabled, produced, wireVars >>

\* enableTwitchSpecificCommands(): CAP REQ :twitch.tv/commands
EnableTwitchSpecificCommands ==
    /\ Alive /\ pc = "enableTwitchSpecificCommands"
    /\ HandshakeWrite("CAP REQ", 7, 19)
    /\ pc' = "joinChannel"
    /\ UNCHANGED << lastLine, startVars, exitReason, reconnectWaitTime, sleeps, dialFails, authSeen,
                    connection, connStatus, listenErr, queueVars, sleepLeft,
                    tasks, WhispersDisabled, produced, wireVars >>

\* joinChannel(): JOIN #<channel>
JoinChannel ==
    /\ Alive /\ pc = "joinChannel"
    /\ HandshakeWrite("JOIN", 4, 1 + ChannelNameLen)
    /\ pc' = "listenToChat"
    /\ UNCHANGED << lastLine, startVars, exitReason, reconnectWaitTime, sleeps, dialFails, authSeen,
                    connection, connStatus, listenErr, queueVars, sleepLeft,
                    tasks, WhispersDisabled, produced, wireVars >>

(***************************************************************************)
(* Session Loop: listenToChat.                                             *)
(***************************************************************************)
Task(kind, user, step) == [kind |-> kind, user |-> user, step |-> step]

Spawn(t) == tasks (+) SetToBag({t})

Finish(t) == tasks (-) SetToBag({t})

\* the branches without the switch on the whole line: the authentication
\* failure and the ping fall through to the regular expressions
listenToChatCaseNoSwitch(line) ==
    IF noticeRegex(line) # <<>>
    THEN LET noticeMessage == noticeRegex(line)[1]
         IN  IF noticeMessage = messageRateNotice THEN "messageRateNotice"
             ELSE IF noticeMessage = whisperDeniedNotice THEN "whisperDeniedNotice"
             ELSE "notice"
    ELSE IF messageRegex(line) # <<>>
         THEN LET messageType == messageRegex(line)[1][2]
                  message == messageRegex(line)[1][3]
              IN  IF messageType = "PRIVMSG"
                  THEN IF commandRegex(message) # <<>>
                          /\ commandRegex(message)[1] = "chucknorris"
                       THEN "chucknorris"
                       ELSE "chat"
                  ELSE "WHISPER"
    ELSE "unmatched"

\* the branches with every notice taken for the refusal of whispers
listenToChatCaseAnyNotice(line) ==
    IF line = authenticationErrorMessage THEN "authenticationError"
    ELSE IF line = pingMessage THEN "ping"
    ELSE IF noticeRegex(line) # <<>> THEN "whisperDeniedNotice"
    ELSE listenToChatCaseNoSwitch(line)

\* the branches with the command looked for in a message of either type
listenToChatCaseAnyType(line) ==
    IF listenToChatCaseNoSwitch(line) = "WHISPER"
       /\ commandRegex(messageRegex(line)[1][3]) # <<>>
       /\ commandRegex(messageRegex(line)[1][3])[1] = "chucknorris"
    THEN "chucknorris"
    ELSE IF line = authenticationErrorMessage THEN "authenticationError"
    ELSE IF line = pingMessage THEN "ping"
    ELSE listenToChatCaseNoSwitch(line)

\* the branch of the loop body of listenToChat a line takes
listenToChatCase(line) ==
    IF line = authenticationErrorMessage THEN "authenticationError"
    ELSE IF line = pingMessage THEN "ping"
    ELSE IF noticeRegex(line) # <<>>
         THEN LET noticeMessage == noticeRegex(line)[1]
              IN  IF noticeMessage = messageRateNotice THEN "messageRateNotice"
                  ELSE IF noticeMessage = whisperDeniedNotice THEN "whisperDeniedNotice"
                  ELSE "notice"
    ELSE IF messageRegex(line) # <<>>
         THEN LET messageType == messageRegex(line)[1][2]
                  message == messageRegex(line)[1][3]
              IN  IF messageType = "PRIVMSG"
                  THEN IF commandRegex(message) # <<>>
                          /\ commandRegex(message)[1] = "chucknorris"
                       THEN "chucknorris"
                       ELSE "chat"
                  ELSE "WHISPER"
    ELSE "unmatched"

\* listenToChat up to the loop without the call of chat(greeting)
ListenInitNoGreeting ==
    /\ Alive /\ pc = "listenToChat"
    /\ messageChannel' = messageChannel + 1
    /\ pc' = "read"
    /\ UNCHANGED << lastLine, startVars, exitReason, crashed, reconnectWaitTime, sleeps,
                    dialFails, authSeen, connection, connStatus, handshake,
                    listenErr, buf, sendq, nextSeq, sleepLeft, tasks,
                    WhispersDisabled, produced, wireVars, lastWrite, lastLine >>

\* listenToChat up to the loop: createMessageChannel() makes a new channel
\* and starts its drain goroutine; chat(greeting) sends on the new channel
ListenInit ==
    /\ Alive /\ pc = "listenToChat"
    /\ LET ch == messageChannel + 1
           greeting == ChatMessage("greeting", "", GreetingLen)
       IN  /\ messageChannel' = ch
           /\ queueMessage("reader", ch, greeting)
           /\ pc' = IF SendBlocks(ch) THEN "queueMessage" ELSE "read"
    /\ UNCHANGED << lastLine, lastWrite, startVars, exitReason, crashed, reconnectWaitTime, sleeps, dialFails, authSeen,
                    connection, connStatus, handshake, listenErr, sleepLeft,
                    tasks, WhispersDisabled, produced, wireVars >>

\* go bot.pong() written twice
GoPongTwice ==
    /\ tasks' = tasks (+) SetToBag({Task("pong", "", "start")})
                      (+) SetToBag({Task("pong", "", "start")})
    /\ UNCHANGED << pc, queueVars >>

\* go bot.pong()
GoPong ==
    /\ tasks' = Spawn(Task("pong", "", "start"))
    /\ UNCHANGED << pc, queueVars >>

\* go bot.replyWithChuckFact(&username)
GoReplyWithChuckFact(username) ==
    /\ tasks' = Spawn(Task("replyWithChuckFact", username, "start"))
    /\ UNCHANGED << pc, queueVars >>

\* bot.whisper(username, bot.WhisperAutoResponse) called by the reader itself
CallWhisper(username) ==
    /\ UNCHANGED << tasks, messageChannel >>
    /\ IF WhispersDisabled
       THEN UNCHANGED << pc, buf, sendq, nextSeq >>
       ELSE /\ queueMessage("reader", messageChannel,
                            WhisperMessage(username, WhisperAutoResponseLen))
            /\ pc' = IF SendBlocks(messageChannel) THEN "queueMessage" ELSE pc

\* go bot.whisper(username, bot.WhisperAutoResponse)
GoWhisper(username) ==
    /\ tasks' = Spawn(Task("whisper", username, "start"))
    /\ UNCHANGED << pc, queueVars >>

\* the test of the queue depth left out
QueueHasRoomAlways == TRUE

\* len(bot.messageChannel) < maxMessageQueueLength
QueueHasRoom == Len(buf[messageChannel]) < maxMessageQueueLength

\* tp.ReadLine() returns line; the loop body runs up to the next ReadLine
ReadLine(L, line) ==
    /\ Alive /\ pc = "read"
    /\ connStatus[connection] = "open"
    /\ authSeen' = (authSeen \/ line = authenticationErrorMessage)
    /\ lastLine' = (IF L.log THEN line ELSE lastLine)
    /\ LET case == listenToChatCase(line)
           username == line.user
           CanSpawn == BagCardinality(tasks) < L.tasks
           CanReply == CanSpawn /\ Spent < L.events
           Continue == UNCHANGED << pc, tasks, queueVars >>
       IN  CASE case = "authenticationError" ->
                  /\ pc' = "disconnect" /\ listenErr' = FALSE
                  /\ UNCHANGED << tasks, queueVars, WhispersDisabled, produced >>
             [] case = "ping" ->
                  /\ CanSpawn
                  /\ GoPong
                  /\ UNCHANGED << listenErr, WhispersDisabled, produced >>
             [] case = "whisperDeniedNotice" ->
                  /\ WhispersDisabled' = TRUE
                  /\ Continue
                  /\ UNCHANGED << listenErr, produced >>
             [] case = "chucknorris" ->
                  IF QueueHasRoom
                  THEN /\ CanReply /\ produced.fact < L.facts
                       /\ GoReplyWithChuckFact(username)
                       /\ produced' = [produced EXCEPT !.fact = @ + 1]
                       /\ UNCHANGED << listenErr, WhispersDisabled >>
                  ELSE /\ Continue
                       /\ UNCHANGED << listenErr, WhispersDisabled, produced >>
             [] case = "WHISPER" ->
                  /\ CanReply /\ produced.whisper < L.whispers
                  /\ GoWhisper(username)
                  /\ produced' = [produced EXCEPT !.whisper = @ + 1]
                  /\ UNCHANGED << listenErr, WhispersDisabled >>
             [] OTHER ->
                  /\ Continue
                  /\ UNCHANGED << listenErr, WhispersDisabled, produced >>
    /\ UNCHANGED << lastWrite, startVars, exitReason, crashed, reconnectWaitTime, sleeps,
                    dialFails, connection, connStatus, handshake, sleepLeft,
                    wireVars >>

\* tp.ReadLine() returns an error: listenToChat returns an error
ReadFail ==
    /\ Alive /\ pc = "read"
    /\ connStatus[connection] = "broken"
    /\ pc' = "disconnect" /\ listenErr' = TRUE
    /\ UNCHANGED << lastLine, lastWrite, startVars, exitReason, crashed, reconnectWaitTime, sleeps, dialFails, authSeen,
                    connection, connStatus, handshake, queueVars, sleepLeft,
                    tasks, WhispersDisabled, produced, wireVars >>

\* listenToChat returning without the deferred disconnect()
DisconnectNoClose ==
    /\ Alive /\ pc = "disconnect"
    /\ IF listenErr
       THEN pc' = "loop" /\ UNCHANGED exitReason
       ELSE pc' = "Terminated" /\ exitReason' = "authentication"
    /\ listenErr' = FALSE
    /\ handshake' = <<>>
    /\ UNCHANGED << lastLine, lastWrite, startVars, crashed, reconnectWaitTime, sleeps, dialFails,
                    authSeen, connection, connStatus, queueVars, sleepLeft,
                    tasks, WhispersDisabled, produced, wireVars >>

\* the deferred disconnect() of listenToChat, then back in Start:
\* an error restarts the loop, nil returns from Start
Disconnect ==
    /\ Alive /\ pc = "disconnect"
    /\ connStatus' = [connStatus EXCEPT ![connection] = "closed"]
    /\ IF listenErr
       THEN pc' = "loop" /\ UNCHANGED exitReason
       ELSE pc' = "Terminated" /\ exitReason' = "authentication"
    /\ listenErr' = FALSE
    /\ handshake' = <<>>
    /\ UNCHANGED << lastLine, lastWrite, startVars, crashed, reconnectWaitTime, sleeps, dialFails, authSeen, connection,
                    queueVars, sleepLeft, tasks, WhispersDisabled, produced,
                    wireVars >>

(***************************************************************************)
(* The goroutines spawned by listenToChat.                                 *)
(***************************************************************************)
\* pong(): writeToTwitch("PONG", ":tmi.twitch.tv")
Pong ==
    /\ Alive
    /\ \E t \in BagToSet(tasks) :
         /\ t.kind = "pong"
         /\ crashed' = (writeToTwitch(4, 14) = "panic")
         /\ lastWrite' = Write("pong", "PONG", 4, 14)
         /\ tasks' = Finish(t)
    /\ UNCHANGED << lastLine, startVars, readerVars, connection, connStatus, queueVars,
                    sleepLeft, WhispersDisabled, produced, wireVars >>

\* what FetchChuckFact() returns: an error, or a fact of some length
FetchResults(L) ==
    {[ok |-> FALSE, len |-> 0]} \cup {[ok |-> TRUE, len |-> n] : n \in L.factLens}

\* replyWithChuckFact(username) sending the fact without "<username>: "
ReplyWithChuckFactNoName(L) ==
    /\ Alive
    /\ \E t \in BagToSet(tasks), fetch \in FetchResults(L) :
         /\ t.kind = "replyWithChuckFact" /\ t.step = "start"
         /\ tasks' = Finish(t)
         /\ IF fetch.ok
            THEN queueMessage("task", messageChannel, ChatMessage("fact", "", fetch.len))
            ELSE UNCHANGED << buf, sendq, nextSeq >>
    /\ UNCHANGED << lastLine, lastWrite, startVars, readerVars, crashed, connection, connStatus,
                    messageChannel, sleepLeft, WhispersDisabled, produced,
                    wireVars >>

\* replyWithChuckFact(username): FetchChuckFact(); on success
\* chat("<username>: <fact>"), on an error the goroutine is left to log it
ReplyWithChuckFact(L) ==
    /\ Alive
    /\ \E t \in BagToSet(tasks), fetch \in FetchResults(L) :
         /\ t.kind = "replyWithChuckFact" /\ t.step = "start"
         /\ IF fetch.ok
            THEN /\ tasks' = Finish(t)
                 /\ queueMessage("task", messageChannel,
                                  ChatMessage("fact", t.user, UserNameLen[t.user] + 2 + fetch.len))
            ELSE /\ tasks' = Finish(t) (+) SetToBag({Task(t.kind, t.user, "failed")})
                 /\ UNCHANGED << buf, sendq, nextSeq >>
    /\ UNCHANGED << lastLine, lastWrite, startVars, readerVars, crashed, connection, connStatus,
                    messageChannel, sleepLeft, WhispersDisabled, produced,
                    wireVars >>

\* replyWithChuckFact after a failed fetch, sending an apology to the channel
ReplyFailedApology ==
    /\ Alive
    /\ \E t \in BagToSet(tasks) :
         /\ t.kind = "replyWithChuckFact" /\ t.step = "failed"
         /\ tasks' = Finish(t)
         /\ queueMessage("task", messageChannel, ChatMessage("fact", t.user, 0))
    /\ UNCHANGED << lastLine, lastWrite, startVars, readerVars, crashed, connection, connStatus,
                    messageChannel, sleepLeft, WhispersDisabled, produced,
                    wireVars >>

\* replyWithChuckFact after a failed fetch: printpretty.Error and return
ReplyFailed ==
    /\ Alive
    /\ \E t \in BagToSet(tasks) :
         /\ t.kind = "replyWithChuckFact" /\ t.step = "failed"
         /\ tasks' = Finish(t)
    /\ UNCHANGED << lastLine, lastWrite, startVars, readerVars, crashed, connection, connStatus,
                    queueVars, sleepLeft, WhispersDisabled, produced, wireVars >>

\* whisper(username, message) without the test of bot.WhispersDisabled
WhisperCheckNoFlag ==
    /\ Alive
    /\ \E t \in BagToSet(tasks) :
         /\ t.kind = "whisper" /\ t.step = "start"
         /\ tasks' = Finish(t) (+) SetToBag({Task("whisper", t.user, "send")})
    /\ UNCHANGED << lastLine, lastWrite, startVars, readerVars, crashed, connection, connStatus,
                    queueVars, sleepLeft, WhispersDisabled, produced, wireVars >>

\* whisper(username, message): the test of bot.WhispersDisabled
WhisperCheck ==
    /\ Alive
    /\ \E t \in BagToSet(tasks) :
         /\ t.kind = "whisper" /\ t.step = "start"
         /\ tasks' = IF WhispersDisabled
                     THEN Finish(t)
                     ELSE Finish(t) (+) SetToBag({Task("whisper", t.user, "send")})
    /\ UNCHANGED << lastLine, lastWrite, startVars, readerVars, crashed, connection, connStatus,
                    queueVars, sleepLeft, WhispersDisabled, produced, wireVars >>

\* whisper(username, message): queueMessage("#<username> :/w <username> <message>")
WhisperSend ==
    /\ Alive
    /\ \E t \in BagToSet(tasks) :
         /\ t.kind = "whisper" /\ t.step = "send"
         /\ tasks' = Finish(t)
         /\ queueMessage("task", messageChannel,
                         WhisperMessage(t.user, WhisperAutoResponseLen))
    /\ UNCHANGED << lastLine, lastWrite, startVars, readerVars, crashed, connection, connStatus,
                    messageChannel, sleepLeft, WhispersDisabled, produced,
                    wireVars >>

(***************************************************************************)
(* The drain goroutine of channel c (createMessageChannel):                *)
(*   for message := range ch { writeToTwitch("PRIVMSG", message); Sleep }   *)
(***************************************************************************)
Drain(c) ==
    /\ Alive
    /\ c <= messageChannel
    /\ sleepLeft[c] = 0
    /\ buf[c] # <<>>
    /\ LET item == Head(buf[c])
           result == writeToTwitch(7, item.len)
           parked == sendq[c] # <<>>
       IN  \* the receive frees a slot, which the first parked sender fills
           /\ IF parked
              THEN /\ buf' = [buf EXCEPT ![c] = Append(Tail(@), Item(Head(sendq[c]).msg, nextSeq))]
                   /\ sendq' = [sendq EXCEPT ![c] = Tail(@)]
                   /\ nextSeq' = nextSeq + 1
                   /\ pc' = IF Head(sendq[c]).who = "reader" THEN "read" ELSE pc
              ELSE /\ buf' = [buf EXCEPT ![c] = Tail(@)]
                   /\ UNCHANGED << sendq, nextSeq, pc >>
           /\ crashed' = (result = "panic")
           /\ lastWrite' = Write("drain", "PRIVMSG", 7, item.len)
           /\ IF result = "ok"
              THEN /\ sent' = Append(sent, item.seq)
                   /\ lastGap' = sinceWrite
                   /\ sinceWrite' = 0
              ELSE UNCHANGED << sent, lastGap, sinceWrite >>
           /\ sleepLeft' = [sleepLeft EXCEPT ![c] = chatRateLimit]
    /\ UNCHANGED << lastLine, startVars, exitReason, reconnectWaitTime, sleeps, dialFails, authSeen, handshake,
                    listenErr, connection, connStatus, messageChannel, tasks,
                    WhispersDisabled, produced >>

\* the clock advances by one unit
Tick ==
    /\ Alive
    /\ \/ \E c \in Conns : sleepLeft[c] > 0
       \/ sinceWrite < chatRateLimit
    /\ sleepLeft' = [c \in Conns |-> IF sleepLeft[c] > 0 THEN sleepLeft[c] - 1 ELSE 0]
    /\ sinceWrite' = IF sinceWrite < chatRateLimit THEN sinceWrite + 1 ELSE sinceWrite
    /\ UNCHANGED << lastLine, lastWrite, startVars, readerVars, crashed, connection, connStatus,
                    queueVars, tasks, WhispersDisabled, produced, sent, lastGap >>

(***************************************************************************)
(* Specifications.                                                         *)
(***************************************************************************)
\* the whole session, with reconnects
Next ==
    \/ VerifyConfiguration
    \/ GetOAuthToken
    \/ StartCycle
    \/ DialFail(MainLimits)
    \/ DialOK(MainLimits)
    \/ ConnBreak
    \/ AuthenticatePass
    \/ AuthenticateNick
    \/ EnableTwitchSpecificCommands
    \/ JoinChannel
    \/ ListenInit
    \/ \E line \in Lines : ReadLine(MainLimits, line)
    \/ ReadFail
    \/ Disconnect
    \/ Pong
    \/ ReplyWithChuckFact(MainLimits)
    \/ ReplyFailed
    \/ WhisperCheck
    \/ WhisperSend
    \/ \E c \in Conns : Drain(c)
    \/ Tick

Spec == Init /\ [][Next]_vars

\* one connection that stays up, and a burst of lines on it
NextBurst ==
    \/ VerifyConfiguration
    \/ GetOAuthToken
    \/ StartCycle
    \/ DialOK(BurstLimits)
    \/ AuthenticatePass
    \/ AuthenticateNick
    \/ EnableTwitchSpecificCommands
    \/ JoinChannel
    \/ ListenInit
    \/ \E line \in Lines : ReadLine(BurstLimits, line)
    \/ Disconnect
    \/ Pong
    \/ ReplyWithChuckFact(BurstLimits)
    \/ ReplyFailed
    \/ WhisperCheck
    \/ WhisperSend
    \/ \E c \in Conns : Drain(c)
    \/ Tick

SpecBurst == Init /\ [][NextBurst]_vars

\* one connection that stays up, and whispers enough to fill its channel
NextDrain ==
    \/ VerifyConfiguration
    \/ GetOAuthToken
    \/ StartCycle
    \/ DialOK(DrainLimits)
    \/ AuthenticatePass
    \/ AuthenticateNick
    \/ EnableTwitchSpecificCommands
    \/ JoinChannel
    \/ ListenInit
    \/ \E line \in Lines : ReadLine(DrainLimits, line)
    \/ Disconnect
    \/ Pong
    \/ WhisperCheck
    \/ WhisperSend
    \/ \E c \in Conns : Drain(c)
    \/ Tick

\* the clock advances, and every drain goroutine, which is runnable whenever
\* its channel holds a message and its Sleep is over, is scheduled
SpecDrain ==
    /\ Init /\ [][NextDrain]_vars
    /\ WF_vars(Tick)
    /\ \A c \in Conns : WF_vars(Drain(c))

\* the reader alone: long runs of failed dials, over several cycles
NextBackoff ==
    \/ VerifyConfiguration
    \/ GetOAuthToken
    \/ StartCycle
    \/ DialFail(BackoffLimits)
    \/ DialOK(BackoffLimits)
    \/ ConnBreak
    \/ AuthenticatePass
    \/ AuthenticateNick
    \/ EnableTwitchSpecificCommands
    \/ JoinChannel
    \/ ListenInit
    \/ ReadFail
    \/ Disconnect

SpecBackoff == Init /\ [][NextBackoff]_vars

\* one connection that stays up, and the log of the lines read on it
NextLines ==
    \/ VerifyConfiguration
    \/ GetOAuthToken
    \/ StartCycle
    \/ DialOK(LineLimits)
    \/ AuthenticatePass
    \/ AuthenticateNick
    \/ EnableTwitchSpecificCommands
    \/ JoinChannel
    \/ ListenInit
    \/ \E line \in Lines : ReadLine(LineLimits, line)
    \/ Disconnect
    \/ Pong
    \/ ReplyWithChuckFact(LineLimits)
    \/ ReplyFailed
    \/ WhisperCheck
    \/ WhisperSend
    \/ \E c \in Conns : Drain(c)
    \/ Tick

SpecLines == Init /\ [][NextLines]_vars

(***************************************************************************)
(* Properties.                                                             *)
(***************************************************************************)
\* the drain goroutines that have outbound items to consume
ConsumingDrains ==
    {c \in Conns : c <= messageChannel /\ (buf[c] # <<>> \/ sendq[c] # <<>>)}

\* C1: at most one drain process consumes outbound items, and two consecutive
\* PRIVMSG writes are at least chatRateLimit apart, whatever reconnects happened.
C1_SingleDrainRateLimit ==
    /\ Cardinality(ConsumingDrains) <= 1
    /\ lastGap >= chatRateLimit

\* n + n for a natural number held in five 16-bit limbs
NatDouble(n) ==
    << (2 * n[1]) % LimbBase,
       ((2 * n[2]) % LimbBase) + ((2 * n[1]) \div LimbBase),
       ((2 * n[3]) % LimbBase) + ((2 * n[2]) \div LimbBase),
       ((2 * n[4]) % LimbBase) + ((2 * n[3]) \div LimbBase),
       ((2 * n[5]) % LimbBase) + ((2 * n[4]) \div LimbBase) >>

\* 2^j seconds as a natural number of nanoseconds, in five 16-bit limbs
NatSeconds[j \in 0..63] ==
    IF j = 0 THEN Second \o <<0>> ELSE NatDouble(NatSeconds[j - 1])

\* the natural number a time.Duration stands for (<<>> when it is negative)
NatOf(d) == IF IsNegative64(d) THEN <<>> ELSE d \o <<0>>

\* C2 as stated: after k >= 1 consecutive failed attempts the wait slept before
\* attempt k+1 is the baseline doubled (k-1) times, 2^(k-1) seconds.
C2_SleepDoubledKMinus1 ==
    \A k \in 1..Len(sleeps) : NatOf(sleeps[k]) = NatSeconds[k - 1]

\* a natural number in five limbs is below 2^63
FitsInt64(n) == n[5] = 0 /\ n[4] < LimbBase \div 2

\* the largest k for which 2^(k-1) seconds fit a signed 64-bit nanosecond count
MaxExactFails ==
    CHOOSE k \in 1..63 : FitsInt64(NatSeconds[k - 1]) /\ ~FitsInt64(NatSeconds[k])

\* C2 amended: the wait slept before attempt 2 is zero; after k >= 2 failures
\* the wait slept before attempt k+1 is 2^(k-2) seconds; and the reconnect wait
\* held after k failures is 2^(k-1) seconds (k <= MaxExactFails).
C2_SleepDoubledKMinus2 ==
    /\ \A k \in 1..Len(sleeps) :
         k <= MaxExactFails + 1 =>
           NatOf(sleeps[k]) = IF k = 1 THEN ZeroDuration \o <<0>> ELSE NatSeconds[k - 2]
    /\ Len(sleeps) \in 1..MaxExactFails =>
         NatOf(reconnectWaitTime) = NatSeconds[Len(sleeps) - 1]

\* C2 witness: 35 failed attempts in one cycle, the last exact case
C2_Witness == Len(sleeps) = MaxExactFails + 1 /\ pc = "connect"

\* C3: every connection cycle makes its first attempt with the reconnect wait
\* at zero, whatever failed in earlier cycles.
C3_CycleStartsAtZero ==
    (pc = "connect" /\ sleeps = <<>>) => reconnectWaitTime = ZeroDuration

\* C3 witness: the first attempt of a cycle after a read failure, with a
\* failed dial in an earlier cycle
C3_Witness ==
    /\ pc = "connect" /\ sleeps = <<>>
    /\ Dialled >= 1 /\ dialFails >= 1

\* the reader is past connect() and before the end of disconnect()
ConnectReturned ==
    pc \in {"authenticate", "authenticateNick", "enableTwitchSpecificCommands",
            "joinChannel", "listenToChat", "read", "queueMessage", "disconnect"}

\* C4: connect() leaves only by a successful dial: a failed dial keeps the
\* reader in connect(), and whenever connect() has returned bot.connection is
\* an established connection.
C4_ConnectNeverFails ==
    /\ [](ConnectReturned =>
            connection # 0 /\ connStatus[connection] \in {"open", "broken"})
    /\ [][pc = "connect" => pc' \in {"connect", "authenticate"}]_vars
    /\ [][(pc = "connect" /\ Dialled' > Dialled) =>
            (pc' = "authenticate" /\ connStatus'[connection'] = "open")]_vars

\* C4 witness: connect() has returned after as many failed dials as the
\* specification allows in a cycle
C4_Witness == pc = "authenticate" /\ Len(sleeps) = BackoffFails

\* C5: a read failure closes the transport and restarts the cycle from
\* Connecting; it does not end Start, and every earlier transport is closed
\* when the next connection attempt begins.
C5_ReadFailureReconnects ==
    /\ [](pc \in {"loop", "connect"} =>
            \A c \in Conns : connStatus[c] \in {"unused", "closed"})
    /\ [][(pc = "read" /\ connStatus[connection] = "broken" /\ pc' # pc) =>
            (pc' = "disconnect" /\ listenErr' /\ exitReason' = "")]_vars
    /\ [][(pc = "disconnect" /\ listenErr /\ pc' # pc) =>
            (pc' = "loop" /\ exitReason' = "" /\ connStatus'[connection] = "closed")]_vars
    /\ [][(pc = "loop" /\ pc' # pc) => pc' = "connect"]_vars

\* C5 witness: listening again on a second connection, the first one closed
C5_Witness ==
    pc = "read" /\ connection = 2 /\ connStatus[1] = "closed" /\ exitReason = ""

\* C6: reading the authentication-failure line ends the session: nothing is
\* spawned, enqueued or written for it, the transport is closed, Start
\* returns, and no connection is attempted afterwards.
C6_AuthFailureTerminates ==
    /\ [](authSeen =>
            /\ pc \in {"disconnect", "Terminated"}
            /\ ~listenErr
            /\ pc = "Terminated" =>
                 exitReason = "authentication" /\ connStatus[connection] = "closed")
    /\ [][(~authSeen /\ authSeen') =>
            (pc' = "disconnect" /\
             UNCHANGED << tasks, buf, sendq, nextSeq, sent, produced,
                          WhispersDisabled, handshake, connStatus >>)]_vars
    /\ [][authSeen => UNCHANGED << connection, dialFails, messageChannel >>]_vars
    /\ [][pc = "Terminated" => UNCHANGED vars]_vars

\* C6 witness: Start has returned after an authentication failure
C6_Witness ==
    pc = "Terminated" /\ exitReason = "authentication" /\ authSeen

\* the configuration has every required field and the secrets file a token
ConfigurationValid ==
    /\ config["BotName"] /\ config["Server"] /\ config["Port"]
    /\ config["ChannelName"] /\ config["SecretsPath"]
    /\ tokenSource = "ok"

\* C7: Terminated is reached only by an authentication failure read from the
\* stream or by a configuration error at startup; with a configuration error
\* nothing is ever dialled; Terminated is never left.
C7_TerminatedOnlyByAuthOrConfig ==
    /\ [](pc = "Terminated" =>
            \/ exitReason = "authentication" /\ authSeen /\ ConfigurationValid
            \/ exitReason \in {"config", "token"} /\ ~ConfigurationValid)
    /\ [](~ConfigurationValid =>
            /\ pc \in {"verifyConfiguration", "getOAuthToken", "Terminated"}
            /\ connection = 0 /\ Dialled = 0 /\ dialFails = 0)
    /\ [](ConfigurationValid /\ ~authSeen => pc # "Terminated")
    /\ [][pc = "Terminated" => pc' = "Terminated"]_vars

\* C7 witness: Start has returned because the secrets file holds an empty token
C7_Witness ==
    pc = "Terminated" /\ exitReason = "token" /\ tokenSource = "empty"

\* C8: an enqueue on a full queue does not block the task that calls it
\* (no sender is ever parked on a channel), and the queued items keep their order.
C8_EnqueueNeverBlocks ==
    /\ \A c \in Conns : sendq[c] = <<>>
    /\ \A c \in Conns : \A i, j \in 1..Len(buf[c]) : i < j => buf[c][i].seq < buf[c][j].seq

\* C9: the reader never waits on the outbound queue: it is never parked in
\* queueMessage, and from a read it goes to the next read (or to the end of
\* listenToChat), whatever the queue holds.
C9_ReaderNeverBlocked ==
    /\ [](pc # "queueMessage")
    /\ [][(pc = "read" /\ pc' # pc) => pc' = "disconnect"]_vars

\* C9 witness: the reader is at its next read while the queue is full and a
\* producer is parked on it
C9_Witness ==
    /\ pc = "read" /\ exitReason = "" /\ ~crashed
    /\ Len(buf[messageChannel]) = maxMessageQueueLength
    /\ sendq[messageChannel] # <<>>

\* C10: outbound items are written in enqueue order.
C10_DrainInEnqueueOrder ==
    \A i, j \in 1..Len(sent) : i < j => sent[i] < sent[j]

\* the pong goroutines that have not written yet
PongTasks == CopiesIn(Task("pong", "", "start"), tasks)

\* the lines listenToChat answers with go bot.pong()
PingLines == {line \in Lines : listenToChatCase(line) = "ping"}

\* C11: a received line equal to pingMessage starts exactly one pong
\* goroutine and leaves the reader at its next ReadLine without a write of
\* its own; no other line starts one; every pong goroutine makes exactly one
\* call of writeToTwitch("PONG", ":tmi.twitch.tv") and ends, and nothing else
\* writes a PONG.
C11_PingExactlyOnePong ==
    [][ /\ PingLines = {pingMessage}
        /\ (/\ pc = "read" /\ UNCHANGED << sleepLeft, wireVars >>
            /\ ReadLine(MainLimits, pingMessage))
              => /\ PongTasks' = PongTasks + 1
                 /\ pc' = "read"
                 /\ lastWrite' = lastWrite
        /\ PongTasks' > PongTasks => ReadLine(MainLimits, pingMessage)
        /\ PongTasks' < PongTasks
              => /\ PongTasks' = PongTasks - 1
                 /\ lastWrite' = Write("pong", "PONG", 4, 14)
                 /\ pc' = pc
        /\ (lastWrite' # lastWrite /\ lastWrite'.command = "PONG")
              => /\ PongTasks' = PongTasks - 1
                 /\ lastWrite'.who = "pong" ]_vars

\* a PONG has been written by its goroutine on the open connection and the
\* reader is at ReadLine
C11_Witness ==
    /\ lastWrite.command = "PONG" /\ lastWrite.who = "pong"
    /\ lastWrite.result = "ok"
    /\ pc = "read" /\ PongTasks = 0

\* the greeting as queued with enqueue number seq
GreetingItem(seq) == Item(ChatMessage("greeting", "", GreetingLen), seq)

HandshakeSteps ==
    << "connect", "authenticate", "authenticateNick",
       "enableTwitchSpecificCommands", "joinChannel", "listenToChat", "read" >>

\* the command each step writes
HandshakeCommand ==
    [authenticate |-> "PASS", authenticateNick |-> "NICK",
     enableTwitchSpecificCommands |-> "CAP REQ", joinChannel |-> "JOIN"]

\* C13: in every cycle the reader goes from connect() through the PASS, NICK,
\* CAP REQ and JOIN writes to listenToChat and its first ReadLine, one step
\* after the other; each write step calls writeToTwitch with its command
\* whatever the state of the connection, and whether or not the write
\* succeeds the next step follows, Start does not end and nothing panics.
C13_HandshakeInOrder ==
    [][ \A i \in 1..(Len(HandshakeSteps) - 1) :
          LET step == HandshakeSteps[i]
          IN  /\ (pc = step /\ pc' # pc)
                    => /\ pc' = HandshakeSteps[i + 1]
                       /\ exitReason' = "" /\ ~crashed'
                       /\ step \in DOMAIN HandshakeCommand
                            => /\ lastWrite'.who = "reader"
                               /\ lastWrite'.command = HandshakeCommand[step]
                               /\ lastWrite'.result \in {"ok", "failed"}
                               /\ lastWrite'.result = "ok"
                                    <=> handshake' = Append(handshake, HandshakeCommand[step])
                               /\ lastWrite'.result = "failed" <=> handshake' = handshake
              /\ (pc' = HandshakeSteps[i + 1] /\ pc' # pc /\ pc # "queueMessage")
                    => pc = step ]_vars

\* listening after a handshake in which a write failed: not all four
\* commands were written, and the greeting was queued all the same
C13_Witness ==
    /\ pc = "read" /\ Len(handshake) < 4
    /\ messageChannel > 0 /\ nextSeq > 1

\* the replyWithChuckFact goroutines started for user u that have not ended
FactTasks(u) == CopiesIn(Task("replyWithChuckFact", u, "start"), tasks)

\* the lines whose PRIVMSG text has "chucknorris" as its leftmost command
CommandLines == {line \in Lines : listenToChatCase(line) = "chucknorris"}

\* the outbound message "<s>: <t>" for the public channel, t of length n
Reply(s, n) == ChatMessage("fact", s, UserNameLen[s] + 2 + n)

\* C14: reading a command line of sender s while the queue is not full
\* starts exactly one replyWithChuckFact goroutine for s and queues nothing
\* itself; such a goroutine is started by nothing else; when it ends, either
\* its fetch failed and nothing is queued, or exactly one message "s: t"
\* addressed to the channel is sent on bot.messageChannel, as the next item of
\* the buffer, or with the goroutine parked when the buffer has filled up
\* meanwhile.
C14_OneReplyPerCommand ==
    [][ \A s \in Users :
          /\ \A line \in CommandLines :
                (/\ line.user = s
                 /\ pc = "read" /\ UNCHANGED << lastWrite, sleepLeft, wireVars >>
                 /\ Len(buf[messageChannel]) < maxMessageQueueLength
                 /\ ReadLine(BurstLimits, line))
                  => /\ FactTasks(s)' = FactTasks(s) + 1
                     /\ UNCHANGED queueVars
          /\ FactTasks(s)' > FactTasks(s)
                => \E line \in CommandLines :
                     /\ line.user = s /\ ReadLine(BurstLimits, line)
                     /\ Len(buf[messageChannel]) < maxMessageQueueLength
          /\ FactTasks(s)' < FactTasks(s)
                => /\ FactTasks(s)' = FactTasks(s) - 1
                   /\ \/ UNCHANGED queueVars
                      \/ \E n \in BurstFactLens :
                           /\ ~SendBlocks(messageChannel)
                           /\ buf' = [buf EXCEPT ![messageChannel] =
                                        Append(@, Item(Reply(s, n), nextSeq))]
                           /\ nextSeq' = nextSeq + 1
                           /\ UNCHANGED << sendq, messageChannel >>
                      \/ \E n \in BurstFactLens :
                           /\ SendBlocks(messageChannel)
                           /\ sendq' = [sendq EXCEPT ![messageChannel] =
                                          Append(@, [who |-> "task", msg |-> Reply(s, n)])]
                           /\ UNCHANGED << buf, nextSeq, messageChannel >> ]_vars

\* a reply "bob: <fact>" for the channel is queued and its goroutine has ended
C14_Witness ==
    /\ produced.fact = 1 /\ FactTasks("bob") = 0
    /\ \E n \in BurstFactLens, i \in 1..Len(buf[messageChannel]) :
         /\ buf[messageChannel][i].kind = "fact"
         /\ buf[messageChannel][i].to = "channel"
         /\ buf[messageChannel][i].user = "bob"
         /\ buf[messageChannel][i].len = Reply("bob", n).len

\* the whisper goroutines past their test of bot.WhispersDisabled
SendTasks ==
    LET n[S \in SUBSET Users] ==
          IF S = {} THEN 0
          ELSE LET u == CHOOSE u \in S : TRUE
               IN  CopiesIn(Task("whisper", u, "send"), tasks) + n[S \ {u}]
    IN  n[Users]

\* the auto-responses in the buffers and held by parked senders
WhispersPending ==
    Cardinality({ p \in UNION { {<<c, i>> : i \in DOMAIN buf[c]} : c \in Conns } :
                    buf[p[1]][p[2]].kind = "whisper" })
    + Cardinality({ p \in UNION { {<<c, i>> : i \in DOMAIN sendq[c]} : c \in Conns } :
                    sendq[p[1]][p[2]].msg.kind = "whisper" })

\* C15: once bot.WhispersDisabled is set no step clears it, a reconnect
\* included; while it is set no whisper goroutine passes its test, and an
\* auto-response is queued only by a goroutine that has passed it: none is
\* queued for a direct message received after the notice.
C15_WhispersStayDisabled ==
    [][ /\ WhispersDisabled
          => /\ WhispersDisabled'
             /\ SendTasks' <= SendTasks
        /\ WhispersPending' > WhispersPending
          => /\ WhispersPending' = WhispersPending + 1
             /\ SendTasks' = SendTasks - 1 ]_vars

\* the notice has been received and two direct messages were handled one
\* after the other, the second one after the notice; nothing but the
\* greeting of each session has ever been queued
C15_Witness ==
    /\ WhispersDisabled
    /\ produced.whisper = 2 /\ MaxTasks = 1
    /\ tasks = EmptyBag
    /\ nextSeq = messageChannel + 1
    /\ \A c \in Conns : sendq[c] = <<>>

\* C16: a call of writeToTwitch reaches bot.connection.Write only with a
\* line of at most 512 bytes, command, space, message and "\r\n" counted; a
\* call with a longer line returns without a write, and the step adds
\* nothing to the lines written: no shortened line and no pieces.
C16_NoLineOver512 ==
    /\ [](lastWrite # NoWrite
            => /\ lastWrite.result = "dropped" <=> lastWrite.len > 512
               /\ lastWrite.result \in {"ok", "failed", "panic"} <=> lastWrite.len <= 512)
    /\ [][ \A c \in Conns :
              (/\ buf[c] # <<>>
               /\ buf'[c] = <<>> \/ Head(buf'[c]) # Head(buf[c])
               /\ 7 + 1 + Head(buf[c]).len + 2 > 512)
                => /\ lastWrite' = [who |-> "drain", command |-> "PRIVMSG",
                                    len |-> 7 + 1 + Head(buf[c]).len + 2,
                                    result |-> "dropped", on |-> ConnectionState]
                   /\ UNCHANGED << sent, sinceWrite, lastGap, handshake >>
                   /\ \A i \in DOMAIN buf'[c] : buf'[c][i].seq # Head(buf[c]).seq ]_vars

\* the drain goroutine has called writeToTwitch with a line of 513 bytes on
\* the open connection, and the call wrote nothing
C16_Witness ==
    /\ lastWrite.who = "drain" /\ lastWrite.len = 513
    /\ lastWrite.result = "dropped" /\ lastWrite.on = "open"

\* the drain goroutine has written a line of exactly 512 bytes
C16_WitnessAtLimit ==
    /\ lastWrite.who = "drain" /\ lastWrite.len = 512
    /\ lastWrite.result = "ok"

\* C17: no goroutine calls bot.connection.Write while bot.connection holds a
\* connection that disconnect() has closed, or holds none because the redial
\* is failing: after disconnect() every write waits for the next connection.
C17_NoWriteAfterDisconnect ==
    ~(/\ lastWrite.result \in {"ok", "failed", "panic"}
      /\ lastWrite.on \in {"closed", "nil"})

\* the replyWithChuckFact goroutines whose fetch has failed
FailedTasks ==
    BagCardinality([t \in {u \in BagToSet(tasks) : u.step = "failed"} |-> tasks[t]])

\* the outbound items not written yet: in the buffers, held by parked
\* senders, and to be produced by the reply and whisper goroutines running
Pending ==
    Cardinality(UNION { {<<c, i>> : i \in DOMAIN buf[c]} : c \in Conns })
    + Cardinality(UNION { {<<c, i>> : i \in DOMAIN sendq[c]} : c \in Conns })
    + BagCardinality(tasks) - PongTasks - FailedTasks

\* C18: the pending outbound items are held back by a limit that does not
\* grow with the lines received: they exceed the capacity of the queue only
\* when some command or direct-message line received so far is no longer
\* pending (it was skipped, suppressed or written).
C18_PendingBounded ==
    \/ Pending <= maxMessageQueueLength
    \/ Pending < 1 + produced.fact + produced.whisper

\* a <= b for signed 64-bit values
LessEq64(a, b) ==
    IF IsNegative64(a) # IsNegative64(b) THEN IsNegative64(a)
    ELSE \/ a = b
         \/ \E i \in 1..4 : a[i] < b[i] /\ \A j \in (i + 1)..4 : a[j] = b[j]

\* C19: in a cycle the first attempt is not preceded by a wait, the wait
\* after the first failed attempt is zero, and the wait after each later
\* failed attempt is not negative and not shorter than the one before it.
C19_WaitsNeverShrink ==
    /\ pc = "connect" /\ sleeps = <<>> => reconnectWaitTime = ZeroDuration
    /\ \A k \in 1..Len(sleeps) :
         /\ ~IsNegative64(sleeps[k])
         /\ k = 1 => sleeps[k] = ZeroDuration
         /\ k > 1 => LessEq64(sleeps[k - 1], sleeps[k])

\* C20: no call of writeToTwitch ends the process or Start: a failing write
\* is logged and the goroutine goes on.
C20_WriteNeverKills ==
    /\ ~crashed
    /\ lastWrite.result # "panic"

\* the first token of the shape !word in a body ("" when there is none)
FirstCommandToken(body) ==
    LET at == {i \in DOMAIN body : body[i].bang /\ body[i].w # ""}
    IN  IF at = {} THEN ""
        ELSE body[CHOOSE i \in at : \A j \in at : i <= j].w

\* the channel messages among the lines
ChannelMessages == {line \in Lines : line.from = "user" /\ line.verb = "PRIVMSG"}

\* the channel messages whose first !word token is the registered command
DispatchLines ==
    {line \in ChannelMessages : FirstCommandToken(line.body) = "chucknorris"}

\* C21: the lines listenToChat treats as the command are the channel
\* messages whose first !word token is exactly "chucknorris"; reading one of
\* them while the queue is not full starts a replyWithChuckFact goroutine,
\* and reading any other channel message (no !word token, another first
\* token, another case) starts none.
C21_DispatchOnFirstToken ==
    [][ /\ CommandLines = DispatchLines
        /\ \A s \in Users :
              FactTasks(s)' > FactTasks(s)
                => \E line \in DispatchLines : ReadLine(MainLimits, line)
        /\ (pc = "read" /\ UNCHANGED << lastWrite, sleepLeft, wireVars >>)
              => \A line \in ChannelMessages :
                   ReadLine(MainLimits, line)
                     => IF line \in DispatchLines
                           /\ Len(buf[messageChannel]) < maxMessageQueueLength
                        THEN FactTasks(line.user)' = FactTasks(line.user) + 1
                        ELSE \A s \in Users : FactTasks(s)' = FactTasks(s) ]_vars

\* a command line has been read and its goroutine is running, the reader
\* being back at ReadLine
C21_Witness ==
    /\ pc = "read" /\ produced.fact = 1
    /\ \E s \in Users : FactTasks(s) = 1

\* C22: reading a command line while the current channel holds
\* maxMessageQueueLength items starts no goroutine, queues nothing and leaves
\* the reader at its next ReadLine; a replyWithChuckFact goroutine is started
\* only by a step that finds fewer items in the channel.
C22_NoFetchWhenQueueFull ==
    [][ /\ (/\ pc = "read" /\ UNCHANGED << lastWrite, sleepLeft, wireVars >>
            /\ Len(buf[messageChannel]) = maxMessageQueueLength)
              => \A line \in CommandLines :
                   ReadLine(BurstLimits, line)
                     => /\ tasks' = tasks
                        /\ UNCHANGED queueVars
                        /\ pc' = "read"
        /\ \A s \in Users :
              FactTasks(s)' > FactTasks(s)
                => /\ pc = "read"
                   /\ Len(buf[messageChannel]) < maxMessageQueueLength ]_vars

\* the reader is at ReadLine with the channel full of the greeting and
\* auto-responses, and no reply has been started: a command line read now is
\* skipped
C22_Witness ==
    /\ pc = "read" /\ messageChannel > 0
    /\ Len(buf[messageChannel]) = maxMessageQueueLength
    /\ produced.fact = 0 /\ tasks = EmptyBag

\* the replyWithChuckFact goroutines at step st
ReplyTasks(st) ==
    BagCardinality([t \in {u \in BagToSet(tasks) :
                              u.kind = "replyWithChuckFact" /\ u.step = st} |-> tasks[t]])

\* C23: when the fetch of a reply fails, no outbound item is enqueued for
\* that command and the session state is unchanged: the step in which the
\* fetch fails and the step in which the goroutine returns after it leave
\* the channel, its buffer and its parked senders, the WhispersDisabled
\* flag, the reconnect wait, the connection and the reader's position as
\* they are, and the goroutine is gone without having produced an item
C23_FailedFetchChangesNothing ==
    [][ /\ ReplyTasks("failed")' > ReplyTasks("failed")
            => /\ ReplyTasks("failed")' = ReplyTasks("failed") + 1
               /\ ReplyTasks("start")' = ReplyTasks("start") - 1
               /\ UNCHANGED << queueVars, WhispersDisabled, reconnectWaitTime, sleeps,
                               connection, connStatus, pc, produced, lastWrite,
                               wireVars >>
        /\ ReplyTasks("failed")' < ReplyTasks("failed")
            => /\ ReplyTasks("failed")' = ReplyTasks("failed") - 1
               /\ BagCardinality(tasks') = BagCardinality(tasks) - 1
               /\ UNCHANGED << queueVars, WhispersDisabled, reconnectWaitTime, sleeps,
                               connection, connStatus, pc, produced, lastWrite,
                               wireVars >> ]_vars

\* a fetch has failed while the loop is listening and the goroutine has
\* returned: the only items ever produced are the greeting's
C23_Witness ==
    /\ pc = "read" /\ produced.fact = 1 /\ tasks = EmptyBag
    /\ nextSeq = 2 /\ ~WhispersDisabled

\* the lines the loop body acts on: the authentication failure, the ping,
\* the notice that whispers are refused, and the lines of users
ActedOnLines ==
    {line \in Lines :
        \/ line \in {authenticationErrorMessage, pingMessage,
                      ServerNotice(whisperDeniedNotice)}
        \/ line.from = "user" /\ line.verb \in {"PRIVMSG", "WHISPER"}}

IgnoredLines == Lines \ ActedOnLines

\* C24: a line that matches none of the patterns acted on (an unrecognized
\* or malformed line, a notice other than the refusal of whispers, the
\* send-rate warning included) changes no session state: nothing is
\* enqueued or written, no goroutine is started, WhispersDisabled and the
\* reconnect wait stay as they are, and the loop goes on to the next read
C24_IgnoredLineChangesNothing ==
    [][ (pc = "read" /\ UNCHANGED << lastWrite, sleepLeft, wireVars >>)
          => \A line \in IgnoredLines :
               ReadLine(LineLimits, line)
                 => /\ pc' = "read"
                    /\ UNCHANGED << queueVars, tasks, produced, WhispersDisabled,
                                    reconnectWaitTime, sleeps, connection,
                                    connStatus, exitReason, crashed >> ]_vars

\* the send-rate warning has been read while a reply was being fetched: the
\* goroutine is still there, the flag is unset and the loop is at its read
C24_Witness ==
    /\ lastLine = ServerNotice(messageRateNotice)
    /\ pc = "read" /\ ~WhispersDisabled
    /\ ReplyTasks("start") = 1

\* the whisper goroutines started for u and not yet past their test
WhisperTasks(u) == CopiesIn(Task("whisper", u, "start"), tasks)

\* the lines of users with the verb WHISPER
DirectMessages == {line \in Lines : line.from = "user" /\ line.verb = "WHISPER"}

\* C25: a WHISPER line starts no reply goroutine, even when its text holds
\* "!chucknorris": it starts one whisper goroutine for its sender and
\* nothing else; a PRIVMSG line starts no whisper goroutine; and a whisper
\* goroutine is started only by the read of a WHISPER line
C25_WhisperNeverDispatches ==
    [][ /\ (pc = "read" /\ UNCHANGED << lastWrite, sleepLeft, wireVars >>)
            => /\ \A line \in DirectMessages :
                    ReadLine(LineLimits, line)
                      => /\ \A s \in Users : FactTasks(s)' = FactTasks(s)
                         /\ tasks' = Spawn(Task("whisper", line.user, "start"))
                         /\ pc' = "read" /\ UNCHANGED queueVars
               /\ \A line \in ChannelMessages :
                    ReadLine(LineLimits, line)
                      => \A s \in Users : WhisperTasks(s)' = WhisperTasks(s)
        /\ \A s \in Users :
             WhisperTasks(s)' > WhisperTasks(s)
               => \E line \in DirectMessages : line.user = s /\ ReadLine(LineLimits, line) ]_vars

\* a WHISPER whose text is "!chucknorris" has been read: the whisper
\* goroutine runs, and no fetch of a fact was ever started
C25_Witness ==
    /\ lastLine \in DirectMessages /\ lastLine.body = <<Bang("chucknorris")>>
    /\ WhisperTasks(lastLine.user) = 1
    /\ produced.fact = 0 /\ pc = "read"

\* the items SpecDrain can produce: the greeting and the whispers
DrainItems == 1 + DrainWhispers

\* item n is in the buffer of some channel
InBuf(n) == \E c \in Conns : \E i \in DOMAIN buf[c] : buf[c][i].seq = n

\* the sequence numbers of the items in buffer b
SeqsIn(b) == {b[i].seq : i \in DOMAIN b}

\* no step loses an item: a goroutine that ends in queueMessage has put its
\* message into the buffer or, the buffer being full, is parked with it; a
\* parked sender leaves only with its message appended to the buffer; an
\* item leaves a buffer only at its head, received by the drain goroutine
C26_NothingDiscarded ==
    [][ /\ (\/ SendTasks' < SendTasks
            \/ ReplyTasks("start")' < ReplyTasks("start")
                 /\ ReplyTasks("failed")' = ReplyTasks("failed"))
            => IF Len(buf[messageChannel]) >= maxMessageQueueLength
               THEN /\ Len(sendq'[messageChannel]) = Len(sendq[messageChannel]) + 1
                    /\ buf' = buf
               ELSE /\ Len(buf'[messageChannel]) = Len(buf[messageChannel]) + 1
                    /\ sendq' = sendq
        /\ \A c \in Conns :
             /\ sendq'[c] # sendq[c] /\ Len(sendq'[c]) <= Len(sendq[c])
                  => /\ sendq'[c] = Tail(sendq[c])
                     /\ buf'[c] = Append(Tail(buf[c]), Item(Head(sendq[c]).msg, nextSeq))
             /\ SeqsIn(buf[c]) \ SeqsIn(buf'[c]) # {}
                  => /\ SeqsIn(buf[c]) \ SeqsIn(buf'[c]) = {Head(buf[c]).seq}
                     /\ lastWrite'.who = "drain" ]_vars

\* C26 as stated: no outbound item is discarded because the channel is
\* full, a sender that finds it full waits and is eventually let in, and
\* every item in a buffer is eventually received by a drain goroutine
C26_EveryItemDrained ==
    /\ C26_NothingDiscarded
    /\ \A c \in Conns : (sendq[c] # <<>>) ~> (sendq[c] = <<>>)
    /\ \A n \in 1..DrainItems : InBuf(n) ~> ~InBuf(n)

\* C26 while the process runs: no outbound item is discarded because the
\* channel is full; with the drain goroutines scheduled, a sender parked on
\* a full channel is eventually let in and every item in a buffer is
\* eventually received by a drain goroutine, unless Start returns first
\* and the process ends with the items still queued
C26_EveryItemDrainedWhileRunning ==
    /\ C26_NothingDiscarded
    /\ \A c \in Conns : (sendq[c] # <<>>) ~> (sendq[c] = <<>> \/ ~Alive)
    /\ \A n \in 1..DrainItems : InBuf(n) ~> (~InBuf(n) \/ ~Alive)

\* a whisper goroutine is parked in queueMessage on the full channel
C26_Witness ==
    /\ messageChannel > 0
    /\ Len(buf[messageChannel]) = maxMessageQueueLength
    /\ sendq[messageChannel] # <<>>
    /\ Head(sendq[messageChannel]).msg.kind = "whisper"

\* C27: once bot.WhispersDisabled is set no whisper is put into a message
\* channel: every whisper in a buffer after a step taken with the flag set
\* was in a buffer before it, also when its goroutine was started, had
\* passed its test or was parked in queueMessage before the notice was read
C27_NoWhisperAfterDisabled ==
    [][ WhispersDisabled
          => \A c \in Conns : \A i \in DOMAIN buf'[c] :
               buf'[c][i].kind = "whisper" => buf'[c][i].seq < nextSeq ]_vars

====
